---- MODULE Spec2Model ----
(***************************************************************************)
(* asymmetric_cantor_pytorch (src/task3.py): the levels of an asymmetric   *)
(* Cantor set, computed level by level on float32 tensors.                 *)
(*                                                                         *)
(* Numbers.  A parameter a or b is a Python float; the model draws it from *)
(* the dyadic rationals n / Unit, which are exact doubles whose sums are   *)
(* exact doubles, so the validation of line 45 is integer arithmetic on n. *)
(* An interval endpoint is a float32: <<m, e>> stands for m * 2^e with     *)
(* 2^(Precision-1) <= m < 2^Precision, and <<0, 0>> for 0.0.  Every tensor *)
(* operation rounds its exact result to the nearest float32, ties to even; *)
(* a Python float entering one is first rounded to float32 itself.  With   *)
(* the inputs drawn below every value stays in float32's normal range, so  *)
(* exponents are left unbounded.                                           *)
(*                                                                         *)
(* used and rounded are history variables: the a_i, b_i each iteration     *)
(* resolved, and whether any float32 operation so far rounded.             *)
(***************************************************************************)
EXTENDS Integers, Sequences, FiniteSets

VARIABLES a, b, iterations, a_list, b_list, levels, i, pc, err, used, rounded

vars == <<a, b, iterations, a_list, b_list, levels, i, pc, err, used, rounded>>

----------------------------------------------------------------------------
(* float32 arithmetic (dtype=torch.float32, line 35)                       *)

\* Significand precision of torch.float32, in bits.
Precision == 24

\* Denominator of the parameter grid: a parameter n stands for n / Unit, a
\* double with a few more bits than a float32 holds.
Unit == 2^(Precision + 4)

MantMin == 2^(Precision - 1)

MantMax == 2^Precision

HalfBits == Precision \div 2

Zero == <<0, 0>>

One == <<MantMin, 1 - Precision>>

IsZero(x) == x[1] = 0

\* The float32 nearest to (A * 2^d + r) * 2^e, where 0 <= r < 2^d, ties to
\* even: the significand is brought into [MantMin, MantMax) and the bits
\* below it decide the rounding.
RECURSIVE RoundF(_, _, _, _)
RoundF(A, r, d, e) ==
    IF A = 0 /\ r = 0 THEN Zero
    ELSE IF A >= MantMax THEN RoundF(A \div 2, r + (A % 2) * 2^d, d + 1, e)
    ELSE IF A < MantMin /\ d > 0
         THEN RoundF(2 * A + (r \div 2^(d - 1)), r % 2^(d - 1), d - 1, e)
    ELSE IF A < MantMin THEN RoundF(2 * A, 0, 0, e - 1)
    ELSE LET up == (2 * r > 2^d) \/ (2 * r = 2^d /\ A % 2 = 1)
             m  == IF up THEN A + 1 ELSE A
         IN  IF m = MantMax THEN <<MantMin, e + d + 1>> ELSE <<m, e + d>>

RECURSIVE OddPart(_)
OddPart(n) == IF n = 0 \/ n % 2 = 1 THEN n ELSE OddPart(n \div 2)

\* Whether A * 2^d + r (0 <= r < 2^d) is a float32 already, so that RoundF
\* rounds nothing away: its bits from the lowest set one up fit the significand.
RECURSIVE ExactF(_, _, _)
ExactF(A, r, d) ==
    IF r = 0 THEN OddPart(A) < MantMax
    ELSE IF r % 2 = 0 THEN ExactF(A, r \div 2, d - 1)
    ELSE IF A = 0 THEN r < MantMax
    ELSE d < Precision /\ A < 2^(Precision - d)

\* x > y on float32 values >= 0.
Gt(x, y) ==
    IF IsZero(x) THEN FALSE
    ELSE IF IsZero(y) THEN TRUE
    ELSE x[2] > y[2] \/ (x[2] = y[2] /\ x[1] > y[1])

Ge(x, y) == x = y \/ Gt(x, y)

\* The exact sum or difference of x >= y >= 0 as <<A, r, d, e>>, or <<>> when
\* y is too small to change x.
AlignF(x, y, sign) ==
    LET dd == x[2] - y[2]
        q  == y[1] \div 2^dd
        r  == y[1] % 2^dd
    IN  IF dd > Precision + 2 THEN <<>>
        ELSE IF sign = 1 THEN <<x[1] + q, r, dd, y[2]>>
        ELSE IF r = 0 THEN <<x[1] - q, 0, dd, y[2]>>
        ELSE <<x[1] - q - 1, 2^dd - r, dd, y[2]>>

\* float32 x + y, for x, y >= 0.
AddF(x, y) ==
    IF IsZero(x) THEN y
    ELSE IF IsZero(y) THEN x
    ELSE LET hi == IF Ge(x, y) THEN x ELSE y
             lo == IF Ge(x, y) THEN y ELSE x
             t  == AlignF(hi, lo, 1)
         IN  IF t = <<>> THEN hi ELSE RoundF(t[1], t[2], t[3], t[4])

AddExact(x, y) ==
    IF IsZero(x) \/ IsZero(y) THEN TRUE
    ELSE LET hi == IF Ge(x, y) THEN x ELSE y
             lo == IF Ge(x, y) THEN y ELSE x
             t  == AlignF(hi, lo, 1)
         IN  IF t = <<>> THEN FALSE ELSE ExactF(t[1], t[2], t[3])

\* float32 x - y, for x >= y >= 0.
SubF(x, y) ==
    IF IsZero(y) THEN x
    ELSE IF x = y THEN Zero
    ELSE LET t == AlignF(x, y, -1)
         IN  IF t = <<>> THEN x ELSE RoundF(t[1], t[2], t[3], t[4])

SubExact(x, y) ==
    IF IsZero(y) \/ x = y THEN TRUE
    ELSE LET t == AlignF(x, y, -1)
         IN  IF t = <<>> THEN FALSE ELSE ExactF(t[1], t[2], t[3])

\* The exact product of the significands of x and y as <<A, r>>, standing for
\* A * 2^Precision + r, computed on half-width limbs.
MulParts(x, y) ==
    LET h   == 2^HalfBits
        xh  == x[1] \div h
        xl  == x[1] % h
        yh  == y[1] \div h
        yl  == y[1] % h
        mid == xh * yl + xl * yh
        t   == (mid % h) * h + xl * yl
    IN  <<xh * yh + (mid \div h) + (t \div MantMax), t % MantMax>>

\* float32 x * y, for x, y >= 0.
MulF(x, y) ==
    IF IsZero(x) \/ IsZero(y) THEN Zero
    ELSE LET p == MulParts(x, y)
         IN  RoundF(p[1], p[2], Precision, x[2] + y[2])

MulExact(x, y) ==
    IF IsZero(x) \/ IsZero(y) THEN TRUE
    ELSE LET p == MulParts(x, y) IN ExactF(p[1], p[2], Precision)

\* The float32 a Python float n / Unit (n >= 0) becomes in a tensor operation.
ToF32(n) == RoundF(n, 0, 0, 0 - (Precision + 4))

CastExact(n) == ExactF(n, 0, 0)

----------------------------------------------------------------------------
(* Inputs                                                                  *)

\* Largest iteration count and longest parameter list the model draws.
MaxIter == 3

MaxSeqLen == 2

Quarter == Unit \div 4

Half == Unit \div 2

\* A double just above 0 that a float32 holds exactly, and the double just
\* below 1/2 that becomes 0.5 as a float32.
Tiny == Unit \div 2^(Precision + 3)

HalfLess == Half - Tiny

\* About 0.1: not a float32, so the tensor operations round it.
Tenth == Unit \div 10

\* A double below 1 that becomes 1.0 as a float32.
AlmostOne == Unit - 2 * Tiny

AVals == {0 - Quarter, 0, Tiny, Quarter, Half, AlmostOne}

BVals == {0, Tiny, Tenth, HalfLess, Half}

SeqsUpTo(V, n) == UNION {[1..k -> V] : k \in 0..n}

\* An argument a or b: a float (scalar, val = <<p>>) or a list of floats.
Params(V) ==
    {[scalar |-> TRUE, val |-> <<v>>] : v \in V}
        \cup {[scalar |-> FALSE, val |-> s] : s \in SeqsUpTo(V, MaxSeqLen)}

----------------------------------------------------------------------------
(* asymmetric_cantor_pytorch                                               *)

\* [p] * n
RECURSIVE Repeat(_, _)
Repeat(p, n) == IF n <= 0 THEN <<>> ELSE <<p>> \o Repeat(p, n - 1)

\* Lines 26-30: a list is taken as it is, a scalar is repeated once per
\* iteration.
expand_param(p, n) == IF p.scalar THEN Repeat(p.val[1], n) ELSE p.val

\* A faulty variant of Resolve: the list wraps around instead of clamping to its last
\* element.
ResolveWrap(p_list, k) == p_list[(k % Len(p_list)) + 1]

\* Lines 41-42: p_list[i] if i < len(p_list) else p_list[-1], on a non-empty
\* list (i counts from 0).
Resolve(p_list, k) ==
    IF k < Len(p_list) THEN p_list[k + 1] ELSE p_list[Len(p_list)]

\* A faulty variant of ValidParams: ai + bi <= 1 passes.
ValidParamsLenient(ai, bi) ==
    /\ 0 <= ai /\ ai <= Unit
    /\ 0 <= bi /\ bi <= Unit
    /\ ai + bi <= Unit

\* Line 45: 0 <= ai <= 1 and 0 <= bi <= 1 and ai + bi < 1, on Python floats.
ValidParams(ai, bi) ==
    /\ 0 <= ai /\ ai <= Unit
    /\ 0 <= bi /\ bi <= Unit
    /\ ai + bi < Unit

\* Line 49: lengths = cur_intervals[:, 1] - cur_intervals[:, 0]
Lengths(cur) == [k \in 1..Len(cur) |-> SubF(cur[k][2], cur[k][1])]

\* A faulty variant of left_intervals: ai is not scaled by the interval's length.
left_intervals_unscaled(cur, af) ==
    [k \in 1..Len(cur) |-> <<cur[k][1], AddF(cur[k][1], af)>>]

\* Lines 52-55: the left children, one per interval, in the level's order.
left_intervals(cur, af) ==
    [k \in 1..Len(cur) |->
        <<cur[k][1], AddF(cur[k][1], MulF(af, Lengths(cur)[k]))>>]

\* A faulty variant of right_intervals: the kept right part is measured from the left end.
right_intervals_from_left(cur, bf) ==
    [k \in 1..Len(cur) |->
        <<AddF(cur[k][1], MulF(bf, Lengths(cur)[k])), cur[k][2]>>]

\* Lines 58-61: the right children, one per interval, in the level's order.
right_intervals(cur, bf) ==
    [k \in 1..Len(cur) |->
        <<SubF(cur[k][2], MulF(bf, Lengths(cur)[k])), cur[k][2]>>]

\* A faulty variant of Concatenated: the parents are kept beside their children.
ConcatenatedWithParents(cur, af, bf) ==
    cur \o left_intervals(cur, af) \o right_intervals(cur, bf)

\* Line 64: torch.cat([left_intervals, right_intervals], dim=0)
Concatenated(cur, af, bf) == left_intervals(cur, af) \o right_intervals(cur, bf)

\* A faulty variant of positive_length_mask: >= instead of >.
nonnegative_length_mask(iv) == Ge(iv[2], iv[1])

\* Line 67: next_level[:, 1] > next_level[:, 0]
positive_length_mask(iv) == Gt(iv[2], iv[1])

\* Lines 49-68: the next level from the current one.
next_level(cur, ai, bi) ==
    SelectSeq(Concatenated(cur, ToF32(ai), ToF32(bi)), positive_length_mask)

\* Whether some float32 operation of lines 49-61 rounds its result.
StepRounds(cur, ai, bi) ==
    LET af == ToF32(ai)
        bf == ToF32(bi)
    IN  \/ ~CastExact(ai)
        \/ ~CastExact(bi)
        \/ \E k \in 1..Len(cur) :
              LET L   == cur[k][1]
                  R   == cur[k][2]
                  len == SubF(R, L)
              IN  \/ ~SubExact(R, L)
                  \/ ~MulExact(af, len)
                  \/ ~AddExact(L, MulF(af, len))
                  \/ ~MulExact(bf, len)
                  \/ ~SubExact(R, MulF(bf, len))

NoError == [kind |-> "none", i |-> 0, ai |-> 0, bi |-> 0]

\* Lines 31-35: the state on entry to the loop.
Init ==
    /\ a \in Params(AVals)
    /\ b \in Params(BVals)
    /\ iterations \in 0..MaxIter
    /\ a_list = expand_param(a, iterations)
    /\ b_list = expand_param(b, iterations)
    /\ levels = << <<(<<Zero, One>>)>> >>
    /\ i = 0
    /\ pc = "loop"
    /\ err = NoError
    /\ used = <<>>
    /\ rounded = FALSE

\* Lines 41-42 on an empty list: a_list[-1] (or b_list[-1]) raises IndexError.
RaiseIndexError ==
    /\ pc = "loop"
    /\ i < iterations
    /\ a_list = <<>> \/ b_list = <<>>
    /\ pc' = "raised"
    /\ err' = [kind |-> "IndexError", i |-> i, ai |-> 0, bi |-> 0]
    /\ UNCHANGED <<a, b, iterations, a_list, b_list, levels, i, used, rounded>>

\* Lines 41-46: the parameters of iteration i fail the check: ValueError.
RaiseValueError ==
    /\ pc = "loop"
    /\ i < iterations
    /\ a_list # <<>> /\ b_list # <<>>
    /\ LET ai == Resolve(a_list, i)
           bi == Resolve(b_list, i)
       IN  /\ ~ValidParams(ai, bi)
           /\ used' = Append(used, <<ai, bi>>)
           /\ err' = [kind |-> "ValueError", i |-> i, ai |-> ai, bi |-> bi]
    /\ pc' = "raised"
    /\ UNCHANGED <<a, b, iterations, a_list, b_list, levels, i, rounded>>

\* Lines 38-70: one iteration of the loop, which appends the next level.
Iterate ==
    /\ pc = "loop"
    /\ i < iterations
    /\ a_list # <<>> /\ b_list # <<>>
    /\ LET cur == levels[Len(levels)]
           ai  == Resolve(a_list, i)
           bi  == Resolve(b_list, i)
       IN  /\ ValidParams(ai, bi)
           /\ used' = Append(used, <<ai, bi>>)
           /\ levels' = Append(levels, next_level(cur, ai, bi))
           /\ rounded' = (rounded \/ StepRounds(cur, ai, bi))
    /\ i' = i + 1
    /\ UNCHANGED <<a, b, iterations, a_list, b_list, pc, err>>

\* A faulty variant of Return: range(iterations - 1).
ReturnOneShort ==
    /\ pc = "loop"
    /\ i >= iterations - 1
    /\ pc' = "done"
    /\ UNCHANGED <<a, b, iterations, a_list, b_list, levels, i, err, used, rounded>>

\* A faulty variant of Return: the loop also stops at an empty level.
ReturnOnEmpty ==
    /\ pc = "loop"
    /\ i >= iterations \/ levels[Len(levels)] = <<>>
    /\ pc' = "done"
    /\ UNCHANGED <<a, b, iterations, a_list, b_list, levels, i, err, used, rounded>>

\* Line 71: the loop is over, the levels are returned.
Return ==
    /\ pc = "loop"
    /\ i >= iterations
    /\ pc' = "done"
    /\ UNCHANGED <<a, b, iterations, a_list, b_list, levels, i, err, used, rounded>>

Next == RaiseIndexError \/ RaiseValueError \/ Iterate \/ Return

Spec == Init /\ [][Next]_vars

----------------------------------------------------------------------------
(* The per-interval reference of spec.md 4.1                               *)

\* Parameter resolution as spec.md states it, on the argument as given: the
\* scalar itself, else the list's element k (from 0) if within bounds, else
\* its last element.
ParamAt(p, k) ==
    IF p.scalar THEN p.val[1]
    ELSE IF k < Len(p.val) THEN p.val[k + 1]
    ELSE p.val[Len(p.val)]

\* The per-level transformation of the per-interval mode: the level is walked
\* left to right, and each interval appends its left child (L, L + a*(R-L))
\* if that has positive length, then its right child (R - b*(R-L), R)
\* likewise.
RECURSIVE RefChildren(_, _, _)
RefChildren(cur, af, bf) ==
    IF cur = <<>> THEN <<>>
    ELSE LET L     == cur[1][1]
             R     == cur[1][2]
             len   == SubF(R, L)
             left  == <<L, AddF(L, MulF(af, len))>>
             right == <<SubF(R, MulF(bf, len)), R>>
         IN  (IF Gt(left[2], left[1]) THEN <<left>> ELSE <<>>)
                \o (IF Gt(right[2], right[1]) THEN <<right>> ELSE <<>>)
                \o RefChildren(Tail(cur), af, bf)

\* Level k of the per-interval mode for the arguments of this call.
RECURSIVE RefLevel(_)
RefLevel(k) ==
    IF k = 0 THEN <<(<<Zero, One>>)>>
    ELSE RefChildren(RefLevel(k - 1),
                     ToF32(ParamAt(a, k - 1)), ToF32(ParamAt(b, k - 1)))

----------------------------------------------------------------------------
(* Claims                                                                  *)

LeF(x, y) == ~Gt(x, y)

\* The check of spec.md 4.1 on the parameters of one iteration.
InDomain(ai, bi) ==
    /\ 0 <= ai /\ ai <= Unit
    /\ 0 <= bi /\ bi <= Unit
    /\ ai + bi < Unit

\* The arguments resolve to parameters at iteration k, and these pass.
ValidAt(k) ==
    /\ a.val # <<>>
    /\ b.val # <<>>
    /\ InDomain(ParamAt(a, k), ParamAt(b, k))

\* C1: every level the batched code has built is the same sequence of
\* intervals, in the same order, as the level the per-interval reference
\* builds (each parent's left child immediately before its right child).
C1_BatchedEqualsReference ==
    \A k \in 1..Len(levels) : levels[k] = RefLevel(k - 1)

\* C2: every level is sorted ascending by left endpoint: consecutive
\* intervals of a level have L_k <= L_{k+1}.
C2_LevelsSortedByLeft ==
    \A k \in 1..Len(levels) :
        \A j \in 1..(Len(levels[k]) - 1) :
            LeF(levels[k][j][1], levels[k][j + 1][1])

\* C3: the parameters of every iteration are checked before its intervals
\* are processed, the empty level included: a ValueError carries the
\* smallest iteration index whose resolved a_i, b_i fail 0 <= a_i <= 1,
\* 0 <= b_i <= 1, a_i + b_i < 1, together with these two values; the levels
\* built stop at that index; and a call returns only if every iteration's
\* parameters pass.
C3_ValidationAbortsAtFirstInvalid ==
    /\ (pc = "raised" /\ err.kind = "ValueError") =>
          /\ err.i \in 0..(iterations - 1)
          /\ err.ai = ParamAt(a, err.i)
          /\ err.bi = ParamAt(b, err.i)
          /\ ~InDomain(err.ai, err.bi)
          /\ \A j \in 0..(err.i - 1) : ValidAt(j)
          /\ Len(levels) = err.i + 1
    /\ pc # "raised" => \A j \in 0..(Len(levels) - 2) : ValidAt(j)
    /\ pc = "done" => \A j \in 0..(iterations - 1) : ValidAt(j)

\* The check fires at iteration 1 although level 1 is empty.
C3_Witness ==
    /\ pc = "raised"
    /\ err.kind = "ValueError"
    /\ err.i = 1
    /\ levels[2] = <<>>

\* C4: a call with valid arguments returns, and what it returns has exactly
\* iterations + 1 levels, the first being [(0.0, 1.0)].
C4_LevelCount ==
    /\ pc = "done" =>
          /\ Len(levels) = iterations + 1
          /\ levels[1] = <<(<<Zero, One>>)>>
    /\ (\A j \in 0..(iterations - 1) : ValidAt(j)) => pc # "raised"

C4_Witness ==
    /\ pc = "done"
    /\ iterations = 3
    /\ Len(levels) = 4
    /\ levels[4] # <<>>

\* C5: iteration k uses the scalar, or the list's k-th element, or the
\* list's last element once k is past its end; and every interval of level
\* k+1 is a child, for these same two values, of an interval of level k.
C5_ClampToLast ==
    \A k \in 1..Len(used) :
        /\ used[k] = <<ParamAt(a, k - 1), ParamAt(b, k - 1)>>
        /\ k < Len(levels) =>
              LET af == ToF32(ParamAt(a, k - 1))
                  bf == ToF32(ParamAt(b, k - 1))
              IN  \A n \in 1..Len(levels[k + 1]) :
                      \E m \in 1..Len(levels[k]) :
                          LET L   == levels[k][m][1]
                              R   == levels[k][m][2]
                              len == SubF(R, L)
                          IN  \/ levels[k + 1][n] = <<L, AddF(L, MulF(af, len))>>
                              \/ levels[k + 1][n] = <<SubF(R, MulF(bf, len)), R>>

\* A two-element list for a is reused at the third iteration.
C5_Witness ==
    /\ pc = "done"
    /\ iterations = 3
    /\ ~a.scalar
    /\ Len(a.val) = 2
    /\ a.val[1] # a.val[2]
    /\ b.scalar
    /\ used[3][1] = a.val[2]
    /\ levels[4] # <<>>

\* C6: every interval of level k+1 lies within some interval of level k.
C6_MonotonicContainment ==
    \A k \in 1..(Len(levels) - 1) :
        \A n \in 1..Len(levels[k + 1]) :
            \E m \in 1..Len(levels[k]) :
                /\ LeF(levels[k][m][1], levels[k + 1][n][1])
                /\ LeF(levels[k + 1][n][2], levels[k][m][2])

C6_Witness ==
    /\ pc = "done"
    /\ iterations = 3
    /\ Len(levels[3]) = 4
    /\ Len(levels[4]) = 8
    /\ rounded

\* The parameters used by iterations 1..k were all strictly positive.
PositiveUpTo(k) == \A j \in 1..k : used[j][1] > 0 /\ used[j][2] > 0

\* No child computed from level k degenerates to zero length.
NoChildDegenerates(k) ==
    LET af == ToF32(used[k][1])
        bf == ToF32(used[k][2])
    IN  \A m \in 1..Len(levels[k]) :
            LET L   == levels[k][m][1]
                R   == levels[k][m][2]
                len == SubF(R, L)
            IN  /\ Gt(AddF(L, MulF(af, len)), L)
                /\ Gt(R, SubF(R, MulF(bf, len)))

\* C7: with strictly positive parameters level i has at most 2^i intervals,
\* and exactly 2^i when no child computed on the way degenerated.
C7_CountBound ==
    \A k \in 1..(Len(levels) - 1) :
        PositiveUpTo(k) =>
            /\ Len(levels[k + 1]) <= 2^k
            /\ (\A j \in 1..k : NoChildDegenerates(j)) => Len(levels[k + 1]) = 2^k

C7_Witness ==
    /\ pc = "done"
    /\ iterations = 3
    /\ PositiveUpTo(3)
    /\ \A j \in 1..3 : NoChildDegenerates(j)
    /\ Len(levels[4]) = 8

\* C8: an empty level is followed by empty levels only, and the loop still
\* runs to the end: the result has iterations + 1 levels; a = 0, b = 0,
\* iterations = 3 gives [(0, 1)] and three empty levels.
C8_EmptyLevelPropagates ==
    /\ \A k \in 1..Len(levels) :
          levels[k] = <<>> => \A j \in k..Len(levels) : levels[j] = <<>>
    /\ pc = "done" => Len(levels) = iterations + 1
    /\ (pc = "done" /\ iterations = 3 /\ a.scalar /\ b.scalar
          /\ a.val[1] = 0 /\ b.val[1] = 0) =>
          levels = << <<(<<Zero, One>>)>>, <<>>, <<>>, <<>> >>

C8_Witness ==
    /\ pc = "done"
    /\ iterations = 3
    /\ a.scalar /\ a.val[1] = 0
    /\ b.scalar /\ b.val[1] = 0
    /\ levels[2] = <<>>
    /\ levels[4] = <<>>

\* Every stored interval has R > L.
AllPositiveLength ==
    \A k \in 1..Len(levels) :
        \A n \in 1..Len(levels[k]) : Gt(levels[k][n][2], levels[k][n][1])

\* C9 as stated: every stored interval has R > L, and an iteration with
\* a_i = 0 and b_i > 0 leaves exactly the right children of the parents, one
\* per parent in the parents' order (with b_i = 0 and a_i > 0, the left
\* children).
C9_ZeroSideLeavesAllOtherChildren ==
    /\ AllPositiveLength
    /\ \A k \in 1..(Len(levels) - 1) :
          /\ (used[k][1] = 0 /\ used[k][2] > 0) =>
                levels[k + 1] = right_intervals(levels[k], ToF32(used[k][2]))
          /\ (used[k][2] = 0 /\ used[k][1] > 0) =>
                levels[k + 1] = left_intervals(levels[k], ToF32(used[k][1]))

\* C9 as amended: every stored interval has R > L; a stored left child has
\* a_i * length > 0 and a stored right child b_i * length > 0; and an
\* iteration with a_i = 0 and b_i > 0 leaves, in the parents' order, exactly
\* those right children whose float32 left endpoint is still below R (with
\* b_i = 0 and a_i > 0, those left children whose right endpoint is still
\* above L).
C9_PositiveLengthKept ==
    /\ AllPositiveLength
    /\ \A k \in 1..(Len(levels) - 1) :
          LET af == ToF32(used[k][1])
              bf == ToF32(used[k][2])
              kept(iv) == Gt(iv[2], iv[1])
          IN  /\ \A n \in 1..Len(levels[k + 1]) :
                    \E m \in 1..Len(levels[k]) :
                        LET L   == levels[k][m][1]
                            R   == levels[k][m][2]
                            len == SubF(R, L)
                        IN  \/ /\ levels[k + 1][n] = <<L, AddF(L, MulF(af, len))>>
                               /\ used[k][1] > 0
                               /\ ~IsZero(MulF(af, len))
                            \/ /\ levels[k + 1][n] = <<SubF(R, MulF(bf, len)), R>>
                               /\ used[k][2] > 0
                               /\ ~IsZero(MulF(bf, len))
              /\ (used[k][1] = 0 /\ used[k][2] > 0) =>
                    levels[k + 1] = SelectSeq(right_intervals(levels[k], bf), kept)
              /\ (used[k][2] = 0 /\ used[k][1] > 0) =>
                    levels[k + 1] = SelectSeq(left_intervals(levels[k], af), kept)

\* a_i = 0 and b_i > 0 at the second iteration, on a level of two intervals.
C9_Witness ==
    /\ pc = "done"
    /\ iterations = 2
    /\ Len(levels[2]) = 2
    /\ used[2][1] = 0
    /\ used[2][2] > 0
    /\ Len(levels[3]) = 2

\* Two intervals lie apart, with a gap of positive length between them.
Apart(x, y) == Gt(y[1], x[2]) \/ Gt(x[1], y[2])

StrictlyDisjoint ==
    \A k \in 1..Len(levels) :
        \A m, n \in 1..Len(levels[k]) :
            m # n => Apart(levels[k][m], levels[k][n])

\* C10 as stated: in every level the intervals are pairwise disjoint with a
\* strictly positive gap between them.
C10_StrictlyDisjoint == StrictlyDisjoint

\* C10 as amended: as long as no float32 operation of the call has rounded
\* (the conversions of a_i and b_i included), the intervals of every level
\* are pairwise disjoint with a strictly positive gap between them.
C10_StrictlyDisjointWhenExact == ~rounded => StrictlyDisjoint

C10_Witness ==
    /\ pc = "done"
    /\ iterations = 3
    /\ ~rounded
    /\ Len(levels[4]) = 8

====
